---- MODULE Spec2Model ----
(***************************************************************************)
(* Model of the sheet ingestion and statistics-summary pipeline of         *)
(* src/utils/excel_processor.py (class ExcelProcessor), of the folder      *)
(* listing of src/utils/drive_connector.py, of the selectors of the main   *)
(* page (src/app.py) and of the slide deck of src/utils/ppt_generator.py.  *)
(*                                                                         *)
(* A workbook file is a record [ok, sheets]: ok = FALSE is a file that     *)
(* cannot be opened (missing, truncated, wrong format).  A DataFrame is a  *)
(* record [columns, dtypes, rows]; Optional[DataFrame] is a sequence of    *)
(* length 0 (None) or 1.  A cell is a record [k, v]:                       *)
(*   k = "null"      missing value (NaN / NaT / None)                      *)
(*   k = "num"       number v                                              *)
(*   k = "datetime"  timestamp v                                           *)
(*   k = "text"      string number v of the table TextLiteral              *)
(***************************************************************************)
EXTENDS Integers, Sequences, FiniteSets, TLC

VARIABLES disk, raw, df, last

\* the folder tree under the construction folder, st.session_state, the
\* create_statistics_sheet calls in progress at the same time, and the
\* inputs and outcome of PPTGenerator.create_presentation; each is used by
\* the specification of its part and is <<>> in the others
VARIABLES fs, session, calls, ppt

vars == <<disk, raw, df, last, fs, session, calls, ppt>>

----------------------------------------------------------------------------
(* Bounds of the model *)

\* rows of an enumerated sheet (CleanSpec)
MaxRows == 2

\* length of the selected_columns argument
MaxSel == 2

\* sheets a workbook may hold before create_statistics_sheet is no longer called
MaxSheets == 3

----------------------------------------------------------------------------
(* Cells *)

NULL == [k |-> "null", v |-> 0]

Num(n) == [k |-> "num", v |-> n]

Datetime(d) == [k |-> "datetime", v |-> d]

Text(i) == [k |-> "text", v |-> i]

IsNull(c) == c.k = "null"

\* The strings of the model.  What pandas makes of each is in
\* TextToNumeric and TextToDatetime.
TextLiteral ==
  [i \in 1..6 |->
     CASE i = 1 -> "Foundation"
       [] i = 2 -> "1e3"
       [] i = 3 -> "2024-01-05"
       [] i = 4 -> "NaT"
       [] i = 5 -> "Framing"
       [] i = 6 -> "2024-02-10"]

TextIds == DOMAIN TextLiteral

\* outcome of a conversion of one cell: failure, or the converted cell
Fail == [k |-> "fail", v |-> 0]

\* pd.to_numeric on one string: a parse error or the number
TextToNumeric(i) ==
  CASE i = 2 -> Num(1000)
    [] OTHER -> Fail

\* pd.to_datetime on one string: a parse error, NaT, or the timestamp
TextToDatetime(i) ==
  CASE i = 3 -> Datetime(20240105)
    [] i = 6 -> Datetime(20240210)
    [] i = 4 -> NULL
    [] OTHER -> Fail

----------------------------------------------------------------------------
(* Column names: str.lower() and the substring test of line 47 *)

Chars(name) ==
  CASE name = "Task"      -> <<"T", "a", "s", "k">>
    [] name = "Cost"      -> <<"C", "o", "s", "t">>
    [] name = "StartDate" -> <<"S", "t", "a", "r", "t", "D", "a", "t", "e">>
    [] name = "UPTIME"    -> <<"U", "P", "T", "I", "M", "E">>
    [] name = "A"         -> <<"A">>
    [] name = "B"         -> <<"B">>
    [] name = "Data"      -> <<"D", "a", "t", "a">>
    [] name = "Statistics" ->
         <<"S", "t", "a", "t", "i", "s", "t", "i", "c", "s">>
    [] name = "statistics" ->
         <<"s", "t", "a", "t", "i", "s", "t", "i", "c", "s">>
    [] name \in {"Statistics1", "Statistics2", "Statistics3", "Statistics4",
                 "Statistics5"} ->
         <<"S", "t", "a", "t", "i", "s", "t", "i", "c", "s">>
           \o << CHOOSE d \in {"1", "2", "3", "4", "5"} :
                    name = "Statistics" \o d >>
    [] OTHER              -> <<>>

LowerChar(c) ==
  CASE c = "A" -> "a" [] c = "B" -> "b" [] c = "C" -> "c" [] c = "D" -> "d"
    [] c = "E" -> "e" [] c = "I" -> "i" [] c = "M" -> "m" [] c = "P" -> "p"
    [] c = "S" -> "s" [] c = "T" -> "t" [] c = "U" -> "u"
    [] OTHER -> c

Lower(s) == [i \in 1..Len(s) |-> LowerChar(s[i])]

Contains(sub, s) ==
  \E i \in 1..(Len(s) - Len(sub) + 1) : SubSeq(s, i, i + Len(sub) - 1) = sub

\* 'date' in col.lower() or 'time' in col.lower()
IsDateName(name) ==
  \/ Contains(<<"d", "a", "t", "e">>, Lower(Chars(name)))
  \/ Contains(<<"t", "i", "m", "e">>, Lower(Chars(name)))

----------------------------------------------------------------------------
(* DataFrames *)

None == <<>>

Some(t) == <<t>>

Frame(columns, dtypes, rows) ==
  [columns |-> columns, dtypes |-> dtypes, rows |-> rows]

NCols(t) == Len(t.columns)

NRows(t) == Len(t.rows)

Column(t, j) == [i \in 1..NRows(t) |-> t.rows[i][j]]

\* the sequence s restricted to the positions satisfying keep, order kept
RECURSIVE Filter(_, _, _)
Filter(s, keep, i) ==
  IF i > Len(s) THEN <<>>
  ELSE IF keep[i] THEN <<s[i]>> \o Filter(s, keep, i + 1)
       ELSE Filter(s, keep, i + 1)

\* dtype pandas infers for a column read from a sheet
InferDtype(cells) ==
  IF \A i \in 1..Len(cells) : cells[i].k \in {"null", "num"} THEN "number"
  ELSE IF \A i \in 1..Len(cells) : cells[i].k \in {"null", "datetime"}
       THEN "datetime"
       ELSE "object"

\* pd.read_excel: header row and data rows of a sheet as a DataFrame
ReadExcel(sheet) ==
  Frame(sheet.columns,
        [j \in 1..Len(sheet.columns) |->
           InferDtype([i \in 1..Len(sheet.rows) |-> sheet.rows[i][j]])],
        sheet.rows)

\* df.dropna(how='all')
DropNaRows(t) ==
  Frame(t.columns, t.dtypes,
        Filter(t.rows,
               [i \in 1..NRows(t) |-> \E j \in 1..NCols(t) : ~IsNull(t.rows[i][j])],
               1))

\* df.dropna(axis=1, how='all')
DropNaColumns(t) ==
  LET keep == [j \in 1..NCols(t) |-> \E i \in 1..NRows(t) : ~IsNull(t.rows[i][j])]
  IN  Frame(Filter(t.columns, keep, 1),
            Filter(t.dtypes, keep, 1),
            [i \in 1..NRows(t) |-> Filter(t.rows[i], keep, 1)])

\* df[col] = series
SetColumn(t, j, dtype, cells) ==
  Frame(t.columns,
        [t.dtypes EXCEPT ![j] = dtype],
        [i \in 1..NRows(t) |-> [t.rows[i] EXCEPT ![j] = cells[i]]])

\* one cell under pd.to_datetime
CellToDatetime(c) ==
  CASE c.k = "null"     -> NULL
    [] c.k = "num"      -> Datetime(c.v)
    [] c.k = "datetime" -> c
    [] c.k = "text"     -> TextToDatetime(c.v)

\* pd.to_datetime(series, errors='ignore'): the converted series, or the
\* input when one cell cannot be parsed
ToDatetimeIgnore(dtype, cells) ==
  LET conv == [i \in 1..Len(cells) |-> CellToDatetime(cells[i])]
  IN  IF \E i \in 1..Len(cells) : conv[i] = Fail
      THEN [dtype |-> dtype, cells |-> cells]
      ELSE [dtype |-> "datetime", cells |-> conv]

\* one cell under pd.to_numeric
CellToNumeric(c) ==
  CASE c.k = "null"     -> NULL
    [] c.k = "num"      -> c
    [] c.k = "datetime" -> Fail
    [] c.k = "text"     -> TextToNumeric(c.v)

\* a conversion that converts the cells that parse and keeps the others
ToNumericCellwise(dtype, cells) ==
  LET conv == [i \in 1..Len(cells) |-> CellToNumeric(cells[i])]
  IN  [dtype |-> IF \E i \in 1..Len(cells) : conv[i] = Fail
                 THEN dtype ELSE "number",
       cells |-> [i \in 1..Len(cells) |->
                    IF conv[i] = Fail THEN cells[i] ELSE conv[i]]]

\* pd.to_numeric(series, errors='ignore'): the converted series, or the
\* input when one cell cannot be parsed
ToNumericIgnore(dtype, cells) ==
  LET conv == [i \in 1..Len(cells) |-> CellToNumeric(cells[i])]
  IN  IF \E i \in 1..Len(cells) : conv[i] = Fail
      THEN [dtype |-> dtype, cells |-> cells]
      ELSE [dtype |-> "number", cells |-> conv]

\* Series.equals: same dtype and the same values, nulls equal to nulls
SeriesEquals(a, b) == a.dtype = b.dtype /\ a.cells = b.cells

\* the column labels that are not strings: read_excel labels a column whose
\* header cell holds the number 2024 with the integer 2024, written "2024"
NonTextNames == {"2024"}

\* line 47: col.lower() exists for a string only
IsTextName(name) == name \notin NonTextNames

\* lines 46-51, columns j..n; col.lower() of line 47 is outside the try of
\* line 48, so at a label that is not a string the loop ends with an
\* AttributeError and the frame is as the columns before it left it
RECURSIVE ConvertDateColumns(_, _)
ConvertDateColumns(t, j) ==
  IF j > NCols(t) THEN t
  ELSE IF ~IsTextName(t.columns[j]) THEN t
  ELSE IF IsDateName(t.columns[j])
       THEN LET s == ToDatetimeIgnore(t.dtypes[j], Column(t, j))
            IN  ConvertDateColumns(SetColumn(t, j, s.dtype, s.cells), j + 1)
       ELSE ConvertDateColumns(t, j + 1)

\* lines 54-59, columns j..n
RECURSIVE ConvertNumericColumns(_, _)
ConvertNumericColumns(t, j) ==
  IF j > NCols(t) THEN t
  ELSE IF t.dtypes[j] = "object"
       THEN LET numeric_series == ToNumericIgnore(t.dtypes[j], Column(t, j))
                old == [dtype |-> t.dtypes[j], cells |-> Column(t, j)]
            IN  IF ~SeriesEquals(numeric_series, old)
                THEN ConvertNumericColumns(
                       SetColumn(t, j, numeric_series.dtype, numeric_series.cells),
                       j + 1)
                ELSE ConvertNumericColumns(t, j + 1)
       ELSE ConvertNumericColumns(t, j + 1)

\* the frame after line 43
Pruned(t) == DropNaColumns(DropNaRows(t))

\* the frame after the loop of lines 46-51
DatesConverted(t) == ConvertDateColumns(Pruned(t), 1)

\* the error raised inside the try of line 41, "none" when there is none
CleanError(t) ==
  IF \E j \in 1..NCols(Pruned(t)) : ~IsTextName(Pruned(t).columns[j])
  THEN "attribute"
  ELSE "none"

\* ExcelProcessor._clean_dataframe: the frame of line 61, or on an error the
\* frame of line 65, which is df as the statements before the error left it
CleanDataframe(t) ==
  IF CleanError(t) # "none"
  THEN DatesConverted(t)
  ELSE ConvertNumericColumns(DatesConverted(t), 1)

----------------------------------------------------------------------------
(* Column statistics: Series.count, sum, min, max, mean skip nulls *)

\* a series in which a missing cell counts as the number 0
NullsAsZero(cells) ==
  [i \in 1..Len(cells) |-> IF IsNull(cells[i]) THEN Num(0) ELSE cells[i]]

\* Series.dropna(): the cells the statistics are computed over
NonNull(cells) == Filter(cells, [i \in 1..Len(cells) |-> ~IsNull(cells[i])], 1)

RECURSIVE SumOf(_)
SumOf(cells) ==
  IF cells = <<>> THEN 0 ELSE Head(cells).v + SumOf(Tail(cells))

\* Series.count(): the number of non-null cells
SeriesCount(cells) == Len(NonNull(cells))

\* Series.sum()
SeriesSum(cells) == SumOf(NonNull(cells))

\* Series.min()
SeriesMin(cells) ==
  LET s == NonNull(cells)
  IN  CHOOSE m \in {s[i].v : i \in 1..Len(s)} :
        \A i \in 1..Len(s) : m <= s[i].v

\* Series.max()
SeriesMax(cells) ==
  LET s == NonNull(cells)
  IN  CHOOSE m \in {s[i].v : i \in 1..Len(s)} :
        \A i \in 1..Len(s) : m >= s[i].v

\* round(Series.mean(), 2), in hundredths, ties to even
SeriesMeanRounded(cells) ==
  LET n == SeriesCount(cells)
      h == 100 * SeriesSum(cells)
      q == h \div n
      r == h % n
  IN  IF 2 * r < n THEN q
      ELSE IF 2 * r > n THEN q + 1
      ELSE IF q % 2 = 0 THEN q ELSE q + 1

----------------------------------------------------------------------------
(* The cells create_statistics_sheet writes, in the order it writes them.  *)
(* A write is [sec, col, row, val]: sec names the statement that wrote it, *)
(* val is a string (t = "s"), an integer (t = "n") or a number of          *)
(* hundredths (t = "c").                                                   *)

StrVal(s) == [t |-> "s", s |-> s, n |-> 0]

IntVal(n) == [t |-> "n", s |-> "", n |-> n]

CentsVal(n) == [t |-> "c", s |-> "", n |-> n]

W(sec, col, row, val) == [sec |-> sec, col |-> col, row |-> row, val |-> val]

\* lines 81-88
RenderHeader ==
  << W("title", "A", 1, StrVal("Construction Project Statistics")),
     W("selected", "A", 3, StrVal("Selected Columns for Analysis:")) >>

\* the bullet character and the space that line 92 puts before a name
BulletPrefix == "* "

\* bullets for the first occurrence of each name only
RenderBulletsDistinct(selected_columns) ==
  LET first == Filter(selected_columns,
                      [i \in 1..Len(selected_columns) |->
                         \A k \in 1..(i - 1) : selected_columns[k] # selected_columns[i]],
                      1)
  IN  [i \in 1..Len(first) |-> W("bullet", "A", 3 + i, StrVal(BulletPrefix \o first[i]))]

\* lines 90-93: one bullet per element of selected_columns, from row 4
RenderBullets(selected_columns) ==
  [i \in 1..Len(selected_columns) |->
     W("bullet", "A", 3 + i, StrVal(BulletPrefix \o selected_columns[i]))]

\* counters that count the numeric columns only
RenderCountersNumeric(data, row) ==
  << W("basic", "A", row + 2, StrVal("Basic Statistics:")),
     W("records", "A", row + 3, StrVal("Total Records:")),
     W("records", "B", row + 3, IntVal(NRows(data))),
     W("columns", "A", row + 4, StrVal("Total Columns:")),
     W("columns", "B", row + 4,
       IntVal(Cardinality({j \in 1..NCols(data) : data.dtypes[j] = "number"}))) >>

\* lines 95-106, row being the value of the variable row after the bullets
RenderCounters(data, row) ==
  << W("basic", "A", row + 2, StrVal("Basic Statistics:")),
     W("records", "A", row + 3, StrVal("Total Records:")),
     W("records", "B", row + 3, IntVal(NRows(data))),
     W("columns", "A", row + 4, StrVal("Total Columns:")),
     W("columns", "B", row + 4, IntVal(NCols(data))) >>

\* data.select_dtypes(include=['number']).columns, as column positions
NumericCols(data) ==
  Filter([j \in 1..NCols(data) |-> j],
         [j \in 1..NCols(data) |-> data.dtypes[j] = "number"], 1)

InSeq(x, s) == \E i \in 1..Len(s) : s[i] = x

\* a filter that keeps a column only when it is selected
IncludedOnlySelected(name, selected_columns) ==
  InSeq(name, selected_columns)

\* line 130: col in selected_columns or not selected_columns
Included(name, selected_columns) ==
  InSeq(name, selected_columns) \/ selected_columns = <<>>

\* what Series.mean, min and max give for a series without a value
NaNVal == [t |-> "nan", s |-> "", n |-> 0]

\* a row written without the guards on the count: the mean, minimum and
\* maximum of a series without a value are NaN, its sum is 0
RenderStatsRowUnguarded(data, j, row) ==
  LET cells == Column(data, j)
      n     == SeriesCount(cells)
  IN  << W("stats", "A", row, StrVal(data.columns[j])),
         W("stats", "B", row, IntVal(n)),
         W("stats", "C", row, IF n > 0 THEN CentsVal(SeriesMeanRounded(cells)) ELSE NaNVal),
         W("stats", "D", row, IF n > 0 THEN IntVal(SeriesMin(cells)) ELSE NaNVal),
         W("stats", "E", row, IF n > 0 THEN IntVal(SeriesMax(cells)) ELSE NaNVal),
         W("stats", "F", row, IntVal(SeriesSum(cells))) >>

\* lines 132-137: the six cells of one column's row
RenderStatsRow(data, j, row) ==
  LET cells == Column(data, j)
      n     == SeriesCount(cells)
  IN  << W("stats", "A", row, StrVal(data.columns[j])),
         W("stats", "B", row, IntVal(n)),
         W("stats", "C", row, IF n > 0 THEN CentsVal(SeriesMeanRounded(cells)) ELSE IntVal(0)),
         W("stats", "D", row, IF n > 0 THEN IntVal(SeriesMin(cells)) ELSE IntVal(0)),
         W("stats", "E", row, IF n > 0 THEN IntVal(SeriesMax(cells)) ELSE IntVal(0)),
         W("stats", "F", row, IF n > 0 THEN IntVal(SeriesSum(cells)) ELSE IntVal(0)) >>

\* a loop over selected_columns instead: one row for each element of the
\* selection that names a numeric column, in the order of the selection
RenderStatsRowsBySelection(data, numeric_cols, selected_columns, k, row) ==
  LET hits == Filter(selected_columns,
                     [i \in 1..Len(selected_columns) |->
                        \E c \in 1..Len(numeric_cols) :
                          data.columns[numeric_cols[c]] = selected_columns[i]], 1)
      pos(name) == CHOOSE j \in 1..NCols(data) : data.columns[j] = name
      rows == [i \in 1..Len(hits) |-> RenderStatsRow(data, pos(hits[i]), row + i)]
      RECURSIVE Concat(_)
      Concat(i) == IF i > Len(hits) THEN <<>> ELSE rows[i] \o Concat(i + 1)
  IN  IF selected_columns = <<>>
      THEN LET all == [i \in 1..Len(numeric_cols) |->
                         RenderStatsRow(data, numeric_cols[i], row + i)]
               RECURSIVE ConcatAll(_)
               ConcatAll(i) == IF i > Len(all) THEN <<>> ELSE all[i] \o ConcatAll(i + 1)
           IN  [writes |-> ConcatAll(1), row |-> row + Len(numeric_cols)]
      ELSE [writes |-> Concat(1), row |-> row + Len(hits)]

\* lines 129-137: the loop over numeric_cols from position k, row being the
\* last row written; gives the writes and the final row
RECURSIVE RenderStatsRows(_, _, _, _, _)
RenderStatsRows(data, numeric_cols, selected_columns, k, row) ==
  IF k > Len(numeric_cols) THEN [writes |-> <<>>, row |-> row]
  ELSE IF Included(data.columns[numeric_cols[k]], selected_columns)
       THEN LET rest == RenderStatsRows(data, numeric_cols, selected_columns,
                                        k + 1, row + 1)
            IN  [writes |-> RenderStatsRow(data, numeric_cols[k], row + 1)
                              \o rest.writes,
                 row |-> rest.row]
       ELSE RenderStatsRows(data, numeric_cols, selected_columns, k + 1, row)

\* lines 108-137
RenderNumeric(data, selected_columns, row) ==
  LET numeric_cols == NumericCols(data)
  IN  IF Len(numeric_cols) > 0
      THEN LET body == RenderStatsRows(data, numeric_cols, selected_columns,
                                       1, row + 3)
           IN  [writes |->
                  << W("numeric", "A", row + 2, StrVal("Numeric Column Statistics:")),
                     W("head", "A", row + 3, StrVal("Column")),
                     W("head", "B", row + 3, StrVal("Count")),
                     W("head", "C", row + 3, StrVal("Mean")),
                     W("head", "D", row + 3, StrVal("Min")),
                     W("head", "E", row + 3, StrVal("Max")),
                     W("head", "F", row + 3, StrVal("Sum")) >> \o body.writes,
                row |-> body.row]
      ELSE [writes |-> <<>>, row |-> row]

\* notes written from the row the variable row stands at
RenderNotesNoGap(row) ==
  << W("note1", "A", row,
       StrVal("Note: Graphs are generated in the web application based on selected columns.")),
     W("note2", "A", row + 1,
       StrVal("Use the PowerPoint export feature to generate presentation slides.")) >>

\* lines 139-146
RenderNotes(row) ==
  << W("note1", "A", row + 3,
       StrVal("Note: Graphs are generated in the web application based on selected columns.")),
     W("note2", "A", row + 4,
       StrVal("Use the PowerPoint export feature to generate presentation slides.")) >>

\* lines 81-146: every cell written into the new sheet
Render(data, selected_columns) ==
  LET afterBullets == 4 + Len(selected_columns)
      counters     == RenderCounters(data, afterBullets)
      numeric      == RenderNumeric(data, selected_columns, afterBullets + 4)
  IN  RenderHeader \o RenderBullets(selected_columns) \o counters
        \o numeric.writes \o RenderNotes(numeric.row)

\* the writes of one section
Section(writes, sec) ==
  Filter(writes, [i \in 1..Len(writes) |-> writes[i].sec = sec], 1)

----------------------------------------------------------------------------
(* Workbooks (openpyxl) *)

EmptySheet == [columns |-> <<>>, rows |-> <<>>]

\* a worksheet holding a table: header row and data rows
DataSheet(title, sheet) == [title |-> title, data |-> sheet, writes |-> <<>>]

\* a worksheet holding the cells written by create_statistics_sheet
CellSheet(title, writes) == [title |-> title, data |-> EmptySheet, writes |-> writes]

\* a file that cannot be opened
Unreadable == [ok |-> FALSE, sheets |-> <<>>]

Workbook(sheets) == [ok |-> TRUE, sheets |-> sheets]

\* workbook.sheetnames
SheetNames(wb) == [i \in 1..Len(wb) |-> wb[i].title]

\* a deletion that leaves the workbook as it is
RemoveNothing(wb, title) == wb

\* del workbook[title]
RemoveSheet(wb, title) ==
  Filter(wb, [i \in 1..Len(wb) |-> wb[i].title # title], 1)

StatisticsChars == Lower(Chars("Statistics"))

DigitValue(c) ==
  CASE c = "1" -> 1 [] c = "2" -> 2 [] c = "3" -> 3 [] c = "4" -> 4
    [] c = "5" -> 5 [] OTHER -> 0

\* the number after "statistics" in a title, 0 when the title has none
TitleCount(title) ==
  LET c == Lower(Chars(title))
  IN  IF Len(c) = Len(StatisticsChars) + 1
         /\ SubSeq(c, 1, Len(StatisticsChars)) = StatisticsChars
      THEN DigitValue(c[Len(c)])
      ELSE 0

Max(S) == CHOOSE m \in S : \A x \in S : x <= m

\* openpyxl's avoid_duplicate_name, called by create_sheet: a title that
\* equals an existing one up to case gets the next free number appended
AvoidDuplicateName(names, value) ==
  IF \E i \in 1..Len(names) : Lower(Chars(names[i])) = Lower(Chars(value))
  THEN value \o ToString(Max({TitleCount(names[i]) : i \in 1..Len(names)} \cup {0}) + 1)
  ELSE value

\* workbook.create_sheet(title): a new empty sheet, appended
CreateSheet(wb, title) ==
  Append(wb, CellSheet(AvoidDuplicateName(SheetNames(wb), title), <<>>))

\* a save that writes a temporary file and renames it over the original
SaveWorkbookAtomic(file, wb, fault) ==
  IF fault \in {"save_open", "save_write"}
  THEN [disk |-> file, ok |-> FALSE]
  ELSE [disk |-> Workbook(wb), ok |-> TRUE]

\* workbook.save(file_path): the file is opened for writing, which truncates
\* it, and then written; the file is as it was when it cannot be opened
\* and is left truncated when the writing fails
SaveWorkbook(file, wb, fault) ==
  IF fault = "save_open" THEN [disk |-> file, ok |-> FALSE]
  ELSE IF fault = "save_write" THEN [disk |-> Unreadable, ok |-> FALSE]
  ELSE [disk |-> Workbook(wb), ok |-> TRUE]

----------------------------------------------------------------------------
(* The operations of ExcelProcessor *)

Faults == {"none", "open", "render", "save_open", "save_write"}

\* what goes wrong while a workbook is read: it cannot be opened ("open",
\* an OSError), or it is opened and its content is not that of a workbook
\* ("read", a format error)
ReadFaults == {"none", "open", "read"}

\* the error raised by load_workbook or read_excel, "none" when there is none
ReadError(file, fault) == IF ~file.ok THEN "open" ELSE fault

\* a handler written for OSError only
ExceptOSErrorOnly(error) == error = "open"

\* lines 21, 35, 63: "except Exception" catches the error whatever its kind
ExceptException(error) == TRUE

\* the place of a title among the titles of the workbooks below when they
\* are sorted as strings: capitals before small letters
TitleRank(name) ==
  CASE name = "Data"       -> 1
    [] name = "Statistics" -> 2
    [] name = "statistics" -> 4
    [] OTHER               -> 3

\* the names as sorted() gives them
SheetNamesSorted(wb) ==
  LET names == SheetNames(wb)
      place == [i \in 1..Len(names) |->
                  Cardinality({j \in 1..Len(names) :
                                 \/ TitleRank(names[j]) < TitleRank(names[i])
                                 \/ TitleRank(names[j]) = TitleRank(names[i]) /\ j < i})]
  IN  [r \in 1..Len(names) |-> names[CHOOSE i \in 1..Len(names) : place[i] = r - 1]]

\* line 17: workbook.sheetnames, the titles in the order of the workbook
SheetNamesInOrder(wb) == SheetNames(wb)

\* get_sheet_names
GetSheetNames(file, fault) ==
  IF ReadError(file, fault) # "none" THEN <<>> ELSE SheetNamesInOrder(file.sheets)

\* whether an exception of get_sheet_names reaches the caller
GetSheetNamesRaises(file, fault) ==
  ReadError(file, fault) # "none" /\ ~ExceptException(ReadError(file, fault))

\* the workbook handle when get_sheet_names returns: closed at line 18; never
\* opened when the file cannot be opened; when the error comes after the
\* file was opened no statement closes it (line 18 is skipped, there is no
\* finally), and it stays open until the runtime collects the workbook,
\* before the return or after it
GetSheetNamesHandles(file, fault) ==
  CASE ReadError(file, fault) = "none" -> {"closed"}
    [] ReadError(file, fault) = "open" -> {"none"}
    [] OTHER                           -> {"open", "collected"}

\* a test that ignores the case of the letters
HasStatisticsSheetAnyCase(file, fault) ==
  \E i \in 1..Len(GetSheetNames(file, fault)) :
    Lower(Chars(GetSheetNames(file, fault)[i])) = StatisticsChars

\* has_statistics_sheet
HasStatisticsSheet(file, fault) ==
  InSeq("Statistics", GetSheetNames(file, fault))

\* the error raised by line 28: that of opening or reading the file, or the
\* ValueError of read_excel for a sheet the workbook lacks
LoadError(file, sheet_name, fault) ==
  IF ReadError(file, fault) # "none" THEN ReadError(file, fault)
  ELSE IF ~InSeq(sheet_name, SheetNames(file.sheets)) THEN "value"
  ELSE "none"

\* load_sheet_data: [raw, df, raised], the frame read, the frame returned
\* and whether an exception reached the caller. An error of the cleaning
\* meets the handler of line 63 and then that of line 35
LoadSheetData(file, sheet_name, fault) ==
  IF LoadError(file, sheet_name, fault) # "none"
  THEN [raw |-> None, df |-> None,
        raised |-> ~ExceptException(LoadError(file, sheet_name, fault))]
  ELSE LET sheet == CHOOSE sh \in {file.sheets[i] : i \in 1..Len(file.sheets)} :
                      sh.title = sheet_name
           read  == ReadExcel(sheet.data)
       IN  IF CleanError(read) # "none" /\ ~ExceptException(CleanError(read))
           THEN [raw |-> Some(read), df |-> None, raised |-> TRUE]
           ELSE [raw |-> Some(read), df |-> Some(CleanDataframe(read)),
                 raised |-> FALSE]

\* get_column_info: the keys of the dictionary returned, one per column of
\* the frame load_sheet_data returns, none when it returns None (line 164)
GetColumnInfo(file, sheet_name, fault) ==
  LET r == LoadSheetData(file, sheet_name, fault)
  IN  IF r.df = None THEN <<>> ELSE r.df[1].columns

\* a file opened for writing: its content is gone
FileAfterOpenForWriting(file) == IF file.ok THEN Unreadable ELSE file

\* the file after get_sheet_names, has_statistics_sheet, load_sheet_data or
\* get_column_info: load_workbook(read_only=True) and read_excel open it for
\* reading, and none of lines 13-37 and 158-197 saves
FileAfterRead(file) == file

\* an except clause that reports success
ExceptReturnsTrue(file, steps) ==
  [disk |-> file, ret |-> TRUE, raised |-> FALSE, steps |-> steps]

\* lines 154-156: the exception is caught and printed, False is returned;
\* file is what the failed call leaves on disk
ExceptClause(file, steps) ==
  [disk |-> file, ret |-> FALSE, raised |-> FALSE, steps |-> steps]

\* a rendering that looks every selected name up in the frame
RenderRaisesOnUnknown(data, selected_columns, fault) ==
  \/ fault = "render"
  \/ \E i \in 1..Len(selected_columns) : ~InSeq(selected_columns[i], data.columns)

\* lines 81-146 raise only when writing a cell fails; no statement looks a
\* selected name up in the frame
RenderRaises(data, selected_columns, fault) == fault = "render"

\* the workbook handle when create_statistics_sheet returns: closed at line
\* 150; never opened when load_workbook fails; when line 81-149 raise, line
\* 150 is skipped and the except clause of lines 154-156 closes nothing, so
\* the workbook stays open until the runtime collects it, before the return
\* or after it
CreateStatisticsSheetHandles(file, data, selected_columns, fault) ==
  IF ~file.ok \/ fault = "open" THEN {"none"}
  ELSE IF RenderRaises(data, selected_columns, fault)
          \/ fault \in {"save_open", "save_write"}
       THEN {"open", "collected"}
       ELSE {"closed"}

\* create_statistics_sheet: the file afterwards, the value returned, whether
\* an exception reached the caller, and the steps completed
CreateStatisticsSheet(file, data, selected_columns, fault) ==
  IF ~file.ok \/ fault = "open"
  THEN ExceptClause(file, <<>>)
  ELSE
    LET loaded  == file.sheets
        deleted == IF InSeq("Statistics", SheetNames(loaded))
                   THEN RemoveSheet(loaded, "Statistics")
                   ELSE loaded
        created == CreateSheet(deleted, "Statistics")
        filled  == [created EXCEPT ![Len(created)].writes =
                                      Render(data, selected_columns)]
        saved   == SaveWorkbook(file, filled, fault)
    IN  IF RenderRaises(data, selected_columns, fault)
        THEN ExceptClause(file, <<"open", "delete", "create">>)
        ELSE IF ~saved.ok
        THEN ExceptClause(saved.disk, <<"open", "delete", "create", "render">>)
        ELSE [disk |-> saved.disk, ret |-> TRUE, raised |-> FALSE,
              steps |-> <<"open", "delete", "create", "render", "save">>]

----------------------------------------------------------------------------
(* Inputs *)

\* the example sheet: Task, Cost, StartDate with an empty third row
ExampleSheet ==
  [columns |-> <<"Task", "Cost", "StartDate">>,
   rows |-> << <<Text(1), Num(1000), Text(3)>>,
               <<Text(5), NULL, Text(6)>>,
               <<NULL, NULL, NULL>> >>]

\* two numeric columns with missing cells
NumericSheet ==
  [columns |-> <<"Task", "Cost">>,
   rows |-> << <<Num(3), Num(-2)>>,
               <<NULL, Num(7)>>,
               <<Num(4), NULL>> >>]

\* a date column of strings that all read as NaT, a numeric column named
\* after a time and a numeric column; no column Task
OddSheet ==
  [columns |-> <<"StartDate", "UPTIME", "Cost">>,
   rows |-> << <<Text(4), Num(5), Num(7)>>,
               <<Text(4), Num(9), NULL>> >>]

\* one column of strings, one of them a number: no numeric column
TextSheet ==
  [columns |-> <<"B">>,
   rows |-> << <<Text(1)>>, <<Text(2)>> >>]

\* a frame the caller of create_statistics_sheet built itself: the numeric
\* column Cost holds no value (no frame returned by load_sheet_data has such
\* a column, line 43 drops it)
CallerFrame ==
  Frame(<<"Task", "Cost">>, <<"number", "number">>, << <<Num(2), NULL>> >>)

SampleSheets == {ExampleSheet, NumericSheet, OddSheet, TextSheet}

\* what a Statistics sheet written earlier holds
OldStatistics == << W("title", "A", 1, StrVal("Construction Project Statistics")) >>

InitialDisks ==
  {Unreadable}
    \cup {Workbook(<<DataSheet("Data", s)>>) : s \in SampleSheets}
    \cup {Workbook(<<DataSheet("Data", ExampleSheet),
                     CellSheet("Statistics", OldStatistics)>>),
          Workbook(<<CellSheet("Statistics", OldStatistics),
                     DataSheet("Data", NumericSheet)>>),
          Workbook(<<DataSheet("Data", ExampleSheet),
                     CellSheet("statistics", OldStatistics)>>)}

\* the names selected: Task is a column of strings in ExampleSheet, a numeric
\* column in NumericSheet and no column of OddSheet and TextSheet
SelNames == {"Cost", "Task"}

SeqsUpTo(S, n) == UNION {[1..k -> S] : k \in 0..n}

Selections == SeqsUpTo(SelNames, MaxSel)

\* the titles of the sheets that hold a table
DataTitles(file) ==
  {file.sheets[i].title : i \in {k \in 1..Len(file.sheets) : file.sheets[k].writes = <<>>
                                                              /\ file.sheets[k].data # EmptySheet}}

----------------------------------------------------------------------------
(* State: the workbook file, the frame last read (raw) and returned (df), *)
(* and the last call with its arguments and results                        *)

Call(op, sheet, sel, fault, ret, names, raised, steps, before, handle) ==
  [op |-> op, sheet |-> sheet, sel |-> sel, fault |-> fault, ret |-> ret,
   names |-> names, raised |-> raised, steps |-> steps, before |-> before,
   handle |-> handle]

NoCall ==
  Call("none", "", <<>>, "none", FALSE, <<>>, FALSE, <<>>, Unreadable, "none")

\* the parts outside ExcelProcessor are absent
OnlyWorkbook == fs = <<>> /\ session = <<>> /\ calls = <<>> /\ ppt = <<>>

Init ==
  /\ disk \in InitialDisks
  /\ raw = None
  /\ df = None
  /\ last = NoCall
  /\ OnlyWorkbook

DoGetSheetNames ==
  \E fault \in ReadFaults :
    \E handle \in GetSheetNamesHandles(disk, fault) :
      /\ last' = Call("get_sheet_names", "", <<>>, fault, FALSE,
                      GetSheetNames(disk, fault),
                      GetSheetNamesRaises(disk, fault), <<>>, disk, handle)
      /\ disk' = FileAfterRead(disk)
      /\ UNCHANGED <<raw, df, fs, session, calls, ppt>>

\* the workbook is the one get_sheet_names opens at line 194; the bare except
\* of line 196 lets nothing through
DoHasStatisticsSheet ==
  \E fault \in ReadFaults :
    \E handle \in GetSheetNamesHandles(disk, fault) :
      /\ last' = Call("has_statistics_sheet", "", <<>>, fault,
                      HasStatisticsSheet(disk, fault), <<>>, FALSE, <<>>, disk,
                      handle)
      /\ disk' = FileAfterRead(disk)
      /\ UNCHANGED <<raw, df, fs, session, calls, ppt>>

\* load_sheet_data under the given faults and for the given sheet names; the
\* file is opened and closed inside read_excel, no handle is held by the code
LoadStep(faults, sheet_names) ==
  \E fault \in faults, sheet_name \in sheet_names :
    LET r == LoadSheetData(disk, sheet_name, fault)
    IN  /\ raw' = r.raw
        /\ df' = r.df
        /\ last' = Call("load_sheet_data", sheet_name, <<>>, fault, r.df # None,
                        <<>>, r.raised, <<>>, disk, "none")
        /\ disk' = FileAfterRead(disk)
        /\ UNCHANGED <<fs, session, calls, ppt>>

\* the sheet loaded is one that holds a table, or a name the workbook lacks
DoLoadSheetData == LoadStep(ReadFaults, DataTitles(disk) \cup {"Missing"})

\* get_column_info loads the sheet into a frame of its own
DoGetColumnInfo ==
  \E fault \in ReadFaults, sheet_name \in DataTitles(disk) \cup {"Missing"} :
    /\ last' = Call("get_column_info", sheet_name, <<>>, fault,
                    GetColumnInfo(disk, sheet_name, fault) # <<>>,
                    GetColumnInfo(disk, sheet_name, fault),
                    LoadSheetData(disk, sheet_name, fault).raised, <<>>, disk,
                    "none")
    /\ disk' = FileAfterRead(disk)
    /\ UNCHANGED <<raw, df, fs, session, calls, ppt>>

\* the pages call create_statistics_sheet with the frame they loaded
DoCreateStatisticsSheet ==
  \E fault \in Faults, selected_columns \in Selections :
    /\ df # None
    /\ Len(disk.sheets) < MaxSheets \/ InSeq("Statistics", SheetNames(disk.sheets))
    /\ \E handle \in CreateStatisticsSheetHandles(disk, df[1], selected_columns, fault) :
         LET r == CreateStatisticsSheet(disk, df[1], selected_columns, fault)
         IN  /\ disk' = r.disk
             /\ last' = Call("create_statistics_sheet", "", selected_columns,
                             fault, r.ret, <<>>, r.raised, r.steps, disk, handle)
    /\ UNCHANGED <<raw, df, fs, session, calls, ppt>>

Next ==
  \/ DoGetSheetNames
  \/ DoHasStatisticsSheet
  \/ DoLoadSheetData
  \/ DoGetColumnInfo
  \/ DoCreateStatisticsSheet

Spec == Init /\ [][Next]_vars

----------------------------------------------------------------------------
(* create_statistics_sheet called with a frame the caller built (line 67 *)
(* takes any frame)                                                      *)

CallerInit ==
  /\ disk = Workbook(<<DataSheet("Data", NumericSheet)>>)
  /\ raw = None
  /\ df = Some(CallerFrame)
  /\ last = NoCall
  /\ OnlyWorkbook

CallerNext == DoCreateStatisticsSheet \/ DoHasStatisticsSheet

CallerSpec == CallerInit /\ [][CallerNext]_vars

----------------------------------------------------------------------------
(* Two create_statistics_sheet calls on the same path at the same time,   *)
(* each with the frame df and its own selected_columns.  A call is a      *)
(* record [pc, wb, sel, overlap]: wb is its in-memory workbook, overlap   *)
(* whether the other call held the file open for writing while it did.    *)
(* calls = [origin, p]: the file at the start and the two calls.          *)

Callers == {1, 2}

Other(i) == CHOOSE j \in Callers : j # i

\* line 71: load_workbook reads the whole file into memory
LoadWorkbook(file) == file.sheets

\* lines 73-146 on the in-memory workbook: the old sheet is deleted, the
\* new one created and filled
EditWorkbook(wb, data, selected_columns) ==
  LET deleted == IF InSeq("Statistics", SheetNames(wb))
                 THEN RemoveSheet(wb, "Statistics")
                 ELSE wb
      created == CreateSheet(deleted, "Statistics")
  IN  [created EXCEPT ![Len(created)].writes = Render(data, selected_columns)]

\* line 149, first half: the file is opened for writing, which empties it
OpenForWriting(file) == Unreadable

\* line 149, second half: the workbook is written from the start of the
\* file and the file closed. When the other call wrote through a handle
\* of its own opened at the same time, its bytes stay wherever this write
\* does not reach: the file is this workbook, or a mixture no reader opens
Written(wb, overlapped) ==
  IF overlapped THEN {Workbook(wb), Unreadable} ELSE {Workbook(wb)}

RaceInit ==
  /\ disk \in {Workbook(<<DataSheet("Data", NumericSheet)>>),
               Workbook(<<CellSheet("Statistics", OldStatistics),
                          DataSheet("Data", NumericSheet)>>)}
  /\ raw = Some(ReadExcel(NumericSheet))
  /\ df = Some(CleanDataframe(ReadExcel(NumericSheet)))
  /\ last = NoCall
  /\ \E s1, s2 \in Selections :
       calls = [origin |-> disk,
                p |-> [i \in Callers |->
                         [pc |-> "start", wb |-> <<>>,
                          sel |-> IF i = 1 THEN s1 ELSE s2, overlap |-> FALSE]]]
  /\ fs = <<>> /\ session = <<>> /\ ppt = <<>>

\* line 71; a file that cannot be read sends the call to lines 154-156
RaceLoad(i) ==
  /\ calls.p[i].pc = "start"
  /\ calls' = [calls EXCEPT !.p[i].pc = IF disk.ok THEN "loaded" ELSE "failed",
                            !.p[i].wb = IF disk.ok THEN LoadWorkbook(disk) ELSE <<>>]
  /\ UNCHANGED <<disk, raw, df, last, fs, session, ppt>>

\* lines 73-146
RaceEdit(i) ==
  /\ calls.p[i].pc = "loaded"
  /\ calls' = [calls EXCEPT !.p[i].pc = "edited",
                            !.p[i].wb = EditWorkbook(calls.p[i].wb, df[1],
                                                     calls.p[i].sel)]
  /\ UNCHANGED <<disk, raw, df, last, fs, session, ppt>>

\* line 149, the file is opened
RaceSaveOpen(i) ==
  /\ calls.p[i].pc = "edited"
  /\ disk' = OpenForWriting(disk)
  /\ calls' = IF calls.p[Other(i)].pc = "writing"
              THEN [calls EXCEPT !.p[i].pc = "writing",
                                 !.p[i].overlap = TRUE,
                                 !.p[Other(i)].overlap = TRUE]
              ELSE [calls EXCEPT !.p[i].pc = "writing"]
  /\ UNCHANGED <<raw, df, last, fs, session, ppt>>

\* line 149, the file is written and closed; lines 150-152
RaceSaveWrite(i) ==
  /\ calls.p[i].pc = "writing"
  /\ disk' \in Written(calls.p[i].wb,
                       calls.p[i].overlap /\ calls.p[Other(i)].pc = "done")
  /\ calls' = [calls EXCEPT !.p[i].pc = "done"]
  /\ last' = Call("create_statistics_sheet", "", calls.p[i].sel, "none", TRUE,
                  <<>>, FALSE, <<"open", "delete", "create", "render", "save">>,
                  calls.origin, "closed")
  /\ UNCHANGED <<raw, df, fs, session, ppt>>

RaceNext ==
  \E i \in Callers :
    \/ RaceLoad(i)
    \/ RaceEdit(i)
    \/ RaceSaveOpen(i)
    \/ RaceSaveWrite(i)

RaceSpec == RaceInit /\ [][RaceNext]_vars

----------------------------------------------------------------------------
(* Cleaning over every sheet of the bounded shapes *)

\* a column label of each kind: one without "date" or "time", one with
\* "date", and one that is not a string
EnumNames == {"Cost", "StartDate", "2024"}

\* a missing cell, a number, and a string of each kind: a number (which is
\* no date), a date (which is no number), and one read as a missing date
EnumCells == {NULL, Num(1000), Text(2), Text(3), Text(4)}

\* the sequences without repetition over S
DistinctSeqs(S) ==
  {s \in SeqsUpTo(S, Cardinality(S)) : \A i, j \in 1..Len(s) : i # j => s[i] # s[j]}

\* the column labels of a sheet: fewer columns than there are labels
EnumColumns ==
  {c \in DistinctSeqs(EnumNames) : Len(c) < Cardinality(EnumNames)}

CleanInit ==
  /\ \E c \in EnumColumns, n \in 0..MaxRows :
       \E r \in [1..n -> [1..Len(c) -> EnumCells]] :
         disk = Workbook(<<DataSheet("Data", [columns |-> c, rows |-> r])>>)
  /\ raw = None
  /\ df = None
  /\ last = NoCall
  /\ OnlyWorkbook

\* the sheet is loaded, or the file turns out not to be a workbook
CleanNext == LoadStep({"none", "read"}, {"Data"})

CleanSpec == CleanInit /\ [][CleanNext]_vars

----------------------------------------------------------------------------
(* The folder tree (src/utils/drive_connector.py).  fs = [exists, items]:  *)
(* whether the construction folder exists, and its entries in the order    *)
(* os.listdir gives them, which is any order.  An entry is                 *)
(* [name, isdir, items, book]: the entries of a directory, the workbook of *)
(* a file.                                                                 *)

\* the longest listing of a project folder
MaxFiles == 2

File(name, book) ==
  [name |-> name, isdir |-> FALSE, items |-> <<>>, book |-> book]

\* opening a directory as a workbook fails as opening a missing file does
Dir(name, items) ==
  [name |-> name, isdir |-> TRUE, items |-> items, book |-> Unreadable]

FileChars(name) ==
  CASE name = "a.xlsx"     -> <<"a", ".", "x", "l", "s", "x">>
    [] name = "b.xls"      -> <<"b", ".", "x", "l", "s">>
    [] name = "c.xlsm"     -> <<"c", ".", "x", "l", "s", "m">>
    [] name = "~$a.xlsx"   -> <<"~", "$", "a", ".", "x", "l", "s", "x">>
    [] name = ".d.xlsx"    -> <<".", "d", ".", "x", "l", "s", "x">>
    [] name = "e.xlsx"     -> <<"e", ".", "x", "l", "s", "x">>
    [] name = "notes.txt"  -> <<"n", "o", "t", "e", "s", ".", "t", "x", "t">>
    [] name = "readme.txt" -> <<"r", "e", "a", "d", "m", "e", ".", "t", "x", "t">>
    [] name = "P1"         -> <<"P", "1">>
    [] name = "P2"         -> <<"P", "2">>
    [] name = "*.xlsx"     -> <<"*", ".", "x", "l", "s", "x">>
    [] name = "*.xls"      -> <<"*", ".", "x", "l", "s">>
    [] name = "*.xlsm"     -> <<"*", ".", "x", "l", "s", "m">>
    [] OTHER               -> <<>>

\* the code point of a character
CharCode(c) ==
  CASE c = "$" -> 36  [] c = "*" -> 42  [] c = "." -> 46  [] c = "1" -> 49
    [] c = "2" -> 50  [] c = "P" -> 80  [] c = "a" -> 97  [] c = "b" -> 98
    [] c = "c" -> 99  [] c = "d" -> 100 [] c = "e" -> 101 [] c = "l" -> 108
    [] c = "m" -> 109 [] c = "n" -> 110 [] c = "o" -> 111 [] c = "r" -> 114
    [] c = "s" -> 115 [] c = "t" -> 116 [] c = "x" -> 120 [] c = "~" -> 126
    [] OTHER -> 0

\* str < str: the first differing character decides, a prefix comes first
RECURSIVE CharsLess(_, _)
CharsLess(a, b) ==
  IF b = <<>> THEN FALSE
  ELSE IF a = <<>> THEN TRUE
  ELSE IF a[1] # b[1] THEN CharCode(a[1]) < CharCode(b[1])
  ELSE CharsLess(Tail(a), Tail(b))

NameLess(a, b) == CharsLess(FileChars(a), FileChars(b))

\* sorted(list(set(names))) and, for names without repetition, sorted(names)
SortedNames(names) ==
  LET S == {names[i] : i \in 1..Len(names)}
  IN  [r \in 1..Cardinality(S) |->
         CHOOSE x \in S : Cardinality({y \in S : NameLess(y, x)}) = r - 1]

\* str.startswith
StartsWith(name, c) == FileChars(name) # <<>> /\ FileChars(name)[1] = c

\* fnmatch of a name against a pattern "*" + suffix
FnMatch(name, pattern) ==
  LET suffix == Tail(FileChars(pattern))
      chars  == FileChars(name)
  IN  /\ Len(chars) >= Len(suffix)
      /\ SubSeq(chars, Len(chars) - Len(suffix) + 1, Len(chars)) = suffix

EntryNames(items) == [i \in 1..Len(items) |-> items[i].name]

Range(s) == {s[i] : i \in 1..Len(s)}

HasEntry(items, name) == InSeq(name, EntryNames(items))

\* the entry of that name; the folder holds no two entries of one name
Entry(items, name) == items[CHOOSE i \in 1..Len(items) : items[i].name = name]

\* glob.glob(os.path.join(path, pattern)): the names of the listing that
\* match, files and directories alike, in the order of the listing; a name
\* beginning with "." matches no pattern that does not begin with "."
Glob(items, pattern) ==
  LET names == EntryNames(items)
  IN  Filter(names,
             [i \in 1..Len(names) |->
                FnMatch(names[i], pattern) /\ ~StartsWith(names[i], ".")], 1)

\* line 38
patterns == <<"*.xlsx", "*.xls", "*.xlsm">>

\* what a DriveConnector operation gives: the list returned, whether an
\* exception reaches the caller, and the lines printed
DriveResult(names, raised, printed) ==
  [names |-> names, raised |-> raised, printed |-> printed]

ListFaults == {"none", "listdir"}

\* get_project_folders without the test of line 14 and the handler of line 25
GetProjectFoldersUnchecked(tree, fault) ==
  IF ~tree.exists \/ fault = "listdir" THEN DriveResult(<<>>, TRUE, <<>>)
  ELSE DriveResult(
         SortedNames(Filter(EntryNames(tree.items),
                            [i \in 1..Len(tree.items) |-> tree.items[i].isdir], 1)),
         FALSE, <<>>)

\* get_project_folders, lines 11-27: a missing root gives [] at line 15, an
\* error of os.listdir is printed at line 26 and gives [] at line 27
GetProjectFolders(tree, fault) ==
  IF ~tree.exists THEN DriveResult(<<>>, FALSE, <<>>)
  ELSE IF fault = "listdir"
  THEN DriveResult(<<>>, FALSE, <<"Error getting project folders">>)
  ELSE DriveResult(
         SortedNames(Filter(EntryNames(tree.items),
                            [i \in 1..Len(tree.items) |-> tree.items[i].isdir], 1)),
         FALSE, <<>>)

\* os.path.exists(os.path.join(construction_folder, project))
ProjectExists(tree, project) == tree.exists /\ HasEntry(tree.items, project)

\* the listing of the project path, empty for a path that is no directory
ProjectItems(tree, project) ==
  IF ProjectExists(tree, project) THEN Entry(tree.items, project).items ELSE <<>>

\* lines 40-45: the matches of the three patterns, in turn, without the
\* names beginning with "~"
ExcelMatches(items) ==
  LET files == Glob(items, patterns[1]) \o Glob(items, patterns[2])
                 \o Glob(items, patterns[3])
  IN  Filter(files, [i \in 1..Len(files) |-> ~StartsWith(files[i], "~")], 1)

\* get_excel_files, lines 29-51: a missing path gives [] at line 33
GetExcelFiles(tree, project) ==
  IF ~ProjectExists(tree, project) THEN DriveResult(<<>>, FALSE, <<>>)
  ELSE DriveResult(SortedNames(ExcelMatches(ProjectItems(tree, project))),
                   FALSE, <<>>)

\* the workbook at os.path.join(project_path, file): a missing file cannot
\* be opened
FileAt(tree, project, file) ==
  IF HasEntry(ProjectItems(tree, project), file)
  THEN Entry(ProjectItems(tree, project), file).book
  ELSE Unreadable

\* get_sheet_names of excel_processor.py on a path of the tree; the error
\* is printed at line 21
SheetNamesAt(tree, project, file, fault) ==
  DriveResult(GetSheetNames(FileAt(tree, project, file), fault),
              GetSheetNamesRaises(FileAt(tree, project, file), fault),
              IF ReadError(FileAt(tree, project, file), fault) # "none"
              THEN <<"Error reading sheet names: " \o project \o "/" \o file>>
              ELSE <<>>)

----------------------------------------------------------------------------
(* Calls on the folder tree.  last = [op, project, file, fault, names,     *)
(* raised, printed, shown, before]: the call, what it returned, the lines  *)
(* it printed, the messages the page showed, and the tree it ran on.       *)

DriveCall(op, project, file, fault, names, raised, printed, shown, before) ==
  [op |-> op, project |-> project, file |-> file, fault |-> fault,
   names |-> names, raised |-> raised, printed |-> printed, shown |-> shown,
   before |-> before]

\* the workbooks of the tree: sheets of these titles
Book(titles) == Workbook([i \in 1..Len(titles) |-> CellSheet(titles[i], <<>>)])

\* what a project folder may hold: a workbook of each extension, the lock
\* file of an open workbook, a hidden workbook, a file that is no workbook
\* and a directory named as a workbook
ProjectEntries ==
  {File("a.xlsx", Book(<<"Data", "Statistics">>)), File("b.xls", Book(<<"Data">>)),
   File("c.xlsm", Book(<<"Data">>)), File("~$a.xlsx", Unreadable),
   File(".d.xlsx", Book(<<"Data">>)), File("notes.txt", Unreadable),
   Dir("e.xlsx", <<>>)}

\* the listings of the root around a project folder P1 with these entries
RootListings(items) ==
  {<<>>,
   <<Dir("P1", items)>>,
   <<File("readme.txt", Unreadable), Dir("P2", <<File("b.xls", Book(<<"Data">>))>>),
     Dir("P1", items)>>}

\* the names asked for: those of the tree and one it lacks
ProjectNames == {"P1", "P2", "P9"}

FileNames == {"a.xlsx", "z.xlsx"}

NoWorkbook == disk = Unreadable /\ raw = None /\ df = None

\* the trees: a root that may be missing, a project folder of at most
\* MaxFiles entries of different names, in any order
TreeInit ==
  \E exists \in BOOLEAN, n \in 0..MaxFiles :
    \E items \in [1..n -> ProjectEntries] :
      /\ \A i, j \in 1..n : i # j => items[i].name # items[j].name
      /\ \E listing \in RootListings(items) :
           /\ ~exists => listing = <<>>
           /\ fs = [exists |-> exists, items |-> listing]

DriveInit ==
  /\ TreeInit
  /\ last = DriveCall("none", "", "", "none", <<>>, FALSE, <<>>, <<>>, fs)
  /\ session = <<>>
  /\ calls = <<>>
  /\ ppt = <<>>
  /\ NoWorkbook

DoGetProjectFolders ==
  \E fault \in ListFaults :
    LET r == GetProjectFolders(fs, fault)
    IN  /\ last' = DriveCall("get_project_folders", "", "", fault, r.names,
                             r.raised, r.printed, <<>>, fs)
        /\ UNCHANGED <<disk, raw, df, fs, session, calls, ppt>>

DoGetExcelFiles ==
  \E project \in ProjectNames :
    LET r == GetExcelFiles(fs, project)
    IN  /\ last' = DriveCall("get_excel_files", project, "", "none", r.names,
                             r.raised, r.printed, <<>>, fs)
        /\ UNCHANGED <<disk, raw, df, fs, session, calls, ppt>>

DoGetSheetNamesAt ==
  \E project \in ProjectNames, file \in FileNames, fault \in ReadFaults :
    LET r == SheetNamesAt(fs, project, file, fault)
    IN  /\ last' = DriveCall("get_sheet_names", project, file, fault, r.names,
                             r.raised, r.printed, <<>>, fs)
        /\ UNCHANGED <<disk, raw, df, fs, session, calls, ppt>>

DriveNext ==
  \/ DoGetProjectFolders
  \/ DoGetExcelFiles
  \/ DoGetSheetNamesAt

DriveSpec == DriveInit /\ [][DriveNext]_vars

----------------------------------------------------------------------------
(* The main page (src/app.py) and the statistics viewer                    *)
(* (src/pages/statistics_viewer.py).  session holds the three entries of   *)
(* st.session_state set by the code and the values of the three keyed      *)
(* select boxes; Unset is None.                                            *)

Unset == ""

SelectProject == "Select a project..."

SelectFile == "Select a file..."

SelectSheet == "Select a sheet..."

Session(project, file, sheet, project_selector, file_selector, sheet_selector) ==
  [selected_project |-> project, selected_file |-> file,
   selected_sheet |-> sheet, project_selector |-> project_selector,
   file_selector |-> file_selector, sheet_selector |-> sheet_selector]

\* lines 17-23 on a new session; no select box has been drawn
NewSession == Session(Unset, Unset, Unset, SelectProject, SelectFile, SelectSheet)

\* st.selectbox(options, key): the value kept under the key when it is still
\* among the options, the first option otherwise
SelectBox(options, kept) == IF InSeq(kept, options) THEN kept ELSE options[1]

\* lines 58-59, 72-73, 86-87: the entry is assigned when the select box holds
\* a choice and is left as it was when it holds the placeholder
StoreSelection(selected, placeholder, stored) ==
  IF selected # placeholder THEN selected ELSE stored

\* the folder or file is deleted by another program while the page runs
RemoveEntry(items, name) ==
  Filter(items, [i \in 1..Len(items) |-> items[i].name # name], 1)

RemoveProject(tree, project) ==
  [tree EXCEPT !.items = RemoveEntry(tree.items, project)]

RemoveFile(tree, project, file) ==
  [tree EXCEPT !.items =
     [i \in 1..Len(tree.items) |->
        IF tree.items[i].name = project
        THEN [tree.items[i] EXCEPT !.items = RemoveEntry(tree.items[i].items, file)]
        ELSE tree.items[i]]]

RECURSIVE ConcatAll(_)
ConcatAll(ss) == IF ss = <<>> THEN <<>> ELSE Head(ss) \o ConcatAll(Tail(ss))

\* display_construction_summary, lines 98-173: every workbook of every
\* project is opened for its sheet names; it draws metrics and charts and
\* changes nothing
SummaryPrinted(tree) ==
  LET projects == GetProjectFolders(tree, "none").names
  IN  ConcatAll([i \in 1..Len(projects) |->
        LET files == GetExcelFiles(tree, projects[i]).names
        IN  ConcatAll([j \in 1..Len(files) |->
              SheetNamesAt(tree, projects[i], files[j], "none").printed])])

\* what a run of a page gives: the session and the tree after it, the
\* select boxes drawn, the messages shown on the page, the lines printed,
\* and whether an exception ends the run
PageResult(s, tree, drawn, shown, printed, raised) ==
  [session |-> s, tree |-> tree, drawn |-> drawn, shown |-> shown,
   printed |-> printed, raised |-> raised]

Gone == {"none", "project", "file"}

\* lines 74-90 for a chosen file: the sheet select box
SheetPart(s, tree, project, file, gone, printed) ==
  LET t      == IF gone = "file" THEN RemoveFile(tree, project, file) ELSE tree
      r      == SheetNamesAt(t, project, file, "none")
      sheet  == SelectBox(<<SelectSheet>> \o r.names, s.sheet_selector)
      chosen == Session(project, file,
                        StoreSelection(sheet, SelectSheet, s.selected_sheet),
                        project, file, sheet)
      lines  == printed \o r.printed
  IN  IF r.raised
      THEN PageResult(Session(project, file, s.selected_sheet, project, file, SelectSheet),
                      t, <<"project_selector", "file_selector">>,
                      <<"Error accessing construction folder">>, lines, FALSE)
      ELSE IF r.names = <<>>
      THEN PageResult(Session(project, file, s.selected_sheet, project, file, SelectSheet),
                      t, <<"project_selector", "file_selector">>, <<>>,
                      lines \o SummaryPrinted(t), FALSE)
      ELSE PageResult(chosen, t,
                      <<"project_selector", "file_selector", "sheet_selector">>,
                      <<>>, lines \o SummaryPrinted(t), FALSE)

\* lines 61-90 for a chosen project: the file select box
FilePart(s, tree, project, gone) ==
  LET t     == IF gone = "project" THEN RemoveProject(tree, project) ELSE tree
      r     == GetExcelFiles(t, project)
      file  == SelectBox(<<SelectFile>> \o r.names, s.file_selector)
      kept  == StoreSelection(file, SelectFile, s.selected_file)
  IN  IF r.raised
      THEN PageResult(Session(project, s.selected_file, s.selected_sheet,
                              project, SelectFile, SelectSheet),
                      t, <<"project_selector">>,
                      <<"Error accessing construction folder">>, r.printed, FALSE)
      ELSE IF r.names = <<>>
      THEN PageResult(Session(project, s.selected_file, s.selected_sheet,
                              project, SelectFile, SelectSheet),
                      t, <<"project_selector">>,
                      <<"No Excel files found in this project">>,
                      r.printed \o SummaryPrinted(t), FALSE)
      ELSE IF file = SelectFile
      THEN PageResult(Session(project, kept, s.selected_sheet,
                              project, SelectFile, SelectSheet),
                      t, <<"project_selector", "file_selector">>, <<>>,
                      r.printed \o SummaryPrinted(t), FALSE)
      ELSE SheetPart([s EXCEPT !.selected_file = kept], t, project, file, gone,
                     r.printed)

\* main, lines 25-96, on the session s holding the values of the select
\* boxes as the user left them; a select box that is not drawn loses its
\* value.  An exception inside the try of line 44 is shown at line 96.
MainPage(s, tree, gone) ==
  LET r       == GetProjectFolders(tree, "none")
      project == SelectBox(<<SelectProject>> \o r.names, s.project_selector)
      idle    == Session(s.selected_project, s.selected_file, s.selected_sheet,
                         SelectProject, SelectFile, SelectSheet)
  IN  IF ~tree.exists
      THEN PageResult(idle, tree, <<>>,
                      <<"Construction folder not found",
                        "Please ensure the Construction folder exists">>,
                      <<>>, FALSE)
      ELSE IF r.raised
      THEN PageResult(idle, tree, <<>>,
                      <<"Error accessing construction folder">>, r.printed, FALSE)
      ELSE IF r.names = <<>>
      THEN PageResult(idle, tree, <<>>,
                      <<"No project folders found in the Construction directory">>,
                      r.printed, FALSE)
      ELSE IF project = SelectProject
      THEN PageResult(idle, tree, <<"project_selector">>, <<>>,
                      r.printed \o SummaryPrinted(tree), FALSE)
      ELSE FilePart([s EXCEPT !.selected_project =
                        StoreSelection(project, SelectProject, s.selected_project)],
                    tree, project, gone)

\* show_statistics_viewer, lines 14-41: the workbook it loads is the one at
\* construction_folder/selected_project/selected_file
StatisticsViewer(s, tree) ==
  IF s.selected_project = Unset \/ s.selected_file = Unset
     \/ s.selected_sheet = Unset
  THEN PageResult(s, tree, <<>>,
                  <<"Please select a project, file, and sheet from the main page">>,
                  <<>>, FALSE)
  ELSE LET r == LoadSheetData(FileAt(tree, s.selected_project, s.selected_file),
                              s.selected_sheet, "none")
       IN  PageResult(s, tree, <<>>,
                      IF r.df = None \/ NRows(r.df[1]) = 0
                      THEN <<"No data found in the selected sheet">> ELSE <<>>,
                      IF r.df = None THEN <<"Error loading sheet data">> ELSE <<>>,
                      r.raised)

\* the options of a select box as the last run drew it, none when it was
\* not drawn
Options(s, tree, widget) ==
  CASE widget = "project_selector" ->
         IF tree.exists /\ GetProjectFolders(tree, "none").names # <<>>
         THEN Range(<<SelectProject>> \o GetProjectFolders(tree, "none").names)
         ELSE {}
    [] widget = "file_selector" ->
         IF s.project_selector # SelectProject
            /\ GetExcelFiles(tree, s.project_selector).names # <<>>
         THEN Range(<<SelectFile>> \o GetExcelFiles(tree, s.project_selector).names)
         ELSE {}
    [] widget = "sheet_selector" ->
         IF s.project_selector # SelectProject /\ s.file_selector # SelectFile
            /\ SheetNamesAt(tree, s.project_selector, s.file_selector, "none").names # <<>>
         THEN Range(<<SelectSheet>>
                      \o SheetNamesAt(tree, s.project_selector, s.file_selector, "none").names)
         ELSE {}
    [] OTHER -> {}

Widgets == {"project_selector", "file_selector", "sheet_selector"}

\* the user changes one select box, or none, and the script runs again;
\* meanwhile another program may delete the project folder or the file
DoMainPage ==
  \E gone \in Gone, widget \in Widgets :
    \E value \in Options(session, fs, widget) \cup {session[widget]} :
      LET r == MainPage([session EXCEPT ![widget] = value], fs, gone)
      IN  /\ gone # "none" => r.tree # fs
          /\ session' = r.session
          /\ fs' = r.tree
          /\ last' = DriveCall("main", r.session.project_selector,
                               r.session.file_selector, gone, r.drawn, r.raised,
                               r.printed, r.shown, fs)
          /\ UNCHANGED <<disk, raw, df, calls, ppt>>

DoStatisticsViewer ==
  LET r == StatisticsViewer(session, fs)
  IN  /\ last' = DriveCall("statistics_viewer", session.selected_project,
                           session.selected_file, "none", <<>>, r.raised,
                           r.printed, r.shown, fs)
      /\ UNCHANGED <<disk, raw, df, fs, session, calls, ppt>>

\* the trees the page runs on: no root, an empty root, a root without
\* folders, and two projects, each with a workbook of its own
PageTrees ==
  {[exists |-> FALSE, items |-> <<>>],
   [exists |-> TRUE, items |-> <<>>],
   [exists |-> TRUE, items |-> <<File("readme.txt", Unreadable)>>],
   [exists |-> TRUE,
    items |-> <<Dir("P2", <<File("b.xls", Book(<<"Data">>))>>),
                Dir("P1", <<File("~$a.xlsx", Unreadable),
                            File("a.xlsx", Book(<<"Data", "Statistics">>))>>)>>]}

PageInit ==
  /\ fs \in PageTrees
  /\ last = DriveCall("none", "", "", "none", <<>>, FALSE, <<>>, <<>>, fs)
  /\ session = NewSession
  /\ calls = <<>>
  /\ ppt = <<>>
  /\ NoWorkbook

PageNext ==
  \/ DoGetProjectFolders
  \/ DoGetExcelFiles
  \/ DoGetSheetNamesAt
  \/ DoMainPage
  \/ DoStatisticsViewer

PageSpec == PageInit /\ [][PageNext]_vars

----------------------------------------------------------------------------
(* The slide deck (src/utils/ppt_generator.py).  A graph is                *)
(* [title, figure]: title "" when the dict has no 'title', figure "none"   *)
(* when it has no 'figure', "ok" for a figure plotly can render and        *)
(* "fails" for one whose write_image raises.  A slide is                   *)
(* [layout, title, picture, number]: number 0 when no number was written.  *)
(* ppt = [temp_dir, graphs, fault, deck, saved, ret, printed]: whether the *)
(* temporary folder exists, the last call, the deck it built, the deck in  *)
(* the file at the path of that call, and the path returned; saved and    *)
(* ret are None or Some.                                                   *)

\* the most graphs in a call
MaxGraphs == 2

Graph(title, figure) == [title |-> title, figure |-> figure]

Slide(layout, title, picture, number) ==
  [layout |-> layout, title |-> title, picture |-> picture, number |-> number]

\* what a slide builder gives: the slides of the presentation, whether an
\* exception reaches create_presentation, and the lines printed
Built(slides, raised, printed) ==
  [slides |-> slides, raised |-> raised, printed |-> printed]

\* _add_title_slide, lines 46-74: the slide is added at line 51, before it
\* is filled
AddTitleSlide(slides, fails) ==
  IF fails
  THEN Built(Append(slides, Slide(0, "", FALSE, 0)), FALSE,
             <<"Error adding title slide">>)
  ELSE Built(Append(slides, Slide(0, "Construction Project Report", FALSE, 0)),
             FALSE, <<>>)

\* line 88: graph_data.get('title', f'Chart {slide_number}')
GraphTitle(graph_data, slide_number) ==
  IF graph_data.title = "" THEN "Chart " \o ToString(slide_number)
  ELSE graph_data.title

\* line 103: the image is written into the temporary folder
WriteImageFails(graph_data, temp_dir) ==
  graph_data.figure = "fails" \/ (graph_data.figure = "ok" /\ ~temp_dir)

\* _add_graph_slide with no handler of its own: the slide added at line 81
\* stays, the error goes to create_presentation
AddGraphSlideUnhandled(slides, graph_data, slide_number, temp_dir) ==
  IF WriteImageFails(graph_data, temp_dir)
  THEN Built(Append(slides, Slide(5, GraphTitle(graph_data, slide_number), FALSE, 0)),
             TRUE, <<>>)
  ELSE Built(Append(slides, Slide(5, GraphTitle(graph_data, slide_number),
                                  graph_data.figure = "ok", slide_number)),
             FALSE, <<>>)

\* _add_graph_slide, lines 76-124: the slide is added at line 81 and titled
\* at line 88; an error of write_image skips the picture and the slide
\* number and is printed at line 124
AddGraphSlide(slides, graph_data, slide_number, temp_dir) ==
  IF WriteImageFails(graph_data, temp_dir)
  THEN Built(Append(slides, Slide(5, GraphTitle(graph_data, slide_number), FALSE, 0)),
             FALSE, <<"Error adding graph slide">>)
  ELSE Built(Append(slides, Slide(5, GraphTitle(graph_data, slide_number),
                                  graph_data.figure = "ok", slide_number)),
             FALSE, <<>>)

\* lines 27-28: the graphs from the i-th on, in their order; an exception
\* ends the loop
RECURSIVE AddGraphSlides(_, _, _, _)
AddGraphSlides(b, graphs, i, temp_dir) ==
  IF i > Len(graphs) \/ b.raised THEN b
  ELSE LET g == AddGraphSlide(b.slides, graphs[i], i, temp_dir)
       IN  AddGraphSlides(Built(g.slides, g.raised, b.printed \o g.printed),
                          graphs, i + 1, temp_dir)

\* _add_summary_slide, lines 126-177: the slide is added at line 131
AddSummarySlide(slides, graph_count, fails) ==
  IF fails
  THEN Built(Append(slides, Slide(1, "", FALSE, 0)), FALSE,
             <<"Error adding summary slide">>)
  ELSE Built(Append(slides, Slide(1, "Report Summary", FALSE, 0)), FALSE, <<>>)

\* the path of line 36, the time stamp left out
ReportPath == "Construction_Project_Report.pptx"

PptFaults == {"none", "build", "save"}

PptResult(deck, saved, ret, printed) ==
  [deck |-> deck, saved |-> saved, ret |-> ret, printed |-> printed]

\* create_presentation, lines 17-44.  fault "build": Presentation() raises
\* at line 21; "save": prs.save raises at line 38, as it does when the
\* temporary folder is gone.  fills: the slide, title or summary, whose
\* filling fails.
CreatePresentation(graphs, fault, fills, temp_dir) ==
  IF fault = "build"
  THEN PptResult(<<>>, None, None, <<"Error creating presentation">>)
  ELSE LET t == AddTitleSlide(<<>>, fills = "title")
           g == AddGraphSlides(t, graphs, 1, temp_dir)
           s == AddSummarySlide(g.slides, Len(graphs), fills = "summary")
       IN  IF g.raised
           THEN PptResult(g.slides, None, None,
                          g.printed \o <<"Error creating presentation">>)
           ELSE IF fault = "save" \/ ~temp_dir
           THEN PptResult(s.slides, None, None,
                          g.printed \o s.printed \o <<"Error creating presentation">>)
           ELSE PptResult(s.slides, Some(s.slides), Some(ReportPath),
                          g.printed \o s.printed)

\* the graphs the pages pass: with and without a title, with a figure that
\* renders, one that does not, and none
GraphKinds ==
  {Graph("", "ok"), Graph("Cost by Task", "ok"), Graph("Cost by Task", "fails"),
   Graph("Cost by Task", "none")}

\* the slide whose filling fails, apart from the graph slides
Fills == {"none", "title", "summary"}

NoGraphs == <<>>

\* __init__, lines 14-15: the temporary folder is made
PptInit ==
  /\ ppt = [temp_dir |-> TRUE, op |-> "none", graphs |-> NoGraphs,
            fault |-> "none", deck |-> <<>>, saved |-> None, ret |-> None,
            printed |-> <<>>]
  /\ fs = <<>>
  /\ session = <<>>
  /\ calls = <<>>
  /\ last = NoCall
  /\ NoWorkbook

DoCreatePresentation ==
  \E graphs \in SeqsUpTo(GraphKinds, MaxGraphs), fault \in PptFaults,
     fills \in Fills :
    LET r == CreatePresentation(graphs, fault, fills, ppt.temp_dir)
    IN  /\ ppt' = [temp_dir |-> ppt.temp_dir, op |-> "create_presentation",
                   graphs |-> graphs, fault |-> fault, deck |-> r.deck,
                   saved |-> r.saved, ret |-> r.ret, printed |-> r.printed]
        /\ UNCHANGED <<disk, raw, df, last, fs, session, calls>>

\* cleanup_temp_files, lines 205-212: the folder goes with the files in it
DoCleanupTempFiles ==
  /\ ppt' = [ppt EXCEPT !.temp_dir = FALSE, !.op = "cleanup_temp_files",
                        !.saved = None]
  /\ UNCHANGED <<disk, raw, df, last, fs, session, calls>>

PptNext ==
  \/ DoCreatePresentation
  \/ DoCleanupTempFiles

PptSpec == PptInit /\ [][PptNext]_vars

----------------------------------------------------------------------------
(* Properties *)

\* the last call was create_statistics_sheet and returned True
Created == last.op = "create_statistics_sheet" /\ last.ret

\* the positions of the sheets of a file titled exactly "Statistics"
StatisticsAt(file) ==
  {i \in 1..Len(file.sheets) : file.sheets[i].title = "Statistics"}

\* the cells of the sheet a successful call created: the last sheet saved
NewWrites == disk.sheets[Len(disk.sheets)].writes

\* the names in column A of the statistics rows, top to bottom
StatsNames(writes) ==
  LET a == Filter(writes,
                  [i \in 1..Len(writes) |->
                     writes[i].sec = "stats" /\ writes[i].col = "A"], 1)
  IN  [i \in 1..Len(a) |-> a[i].val.s]

\* the value written at a column and row of the statistics rows
StatsCell(writes, col, row) ==
  (CHOOSE w \in {writes[i] : i \in 1..Len(writes)} :
     w.sec = "stats" /\ w.col = col /\ w.row = row).val

C2_HasStatisticsAfterCreate ==
  Created => HasStatisticsSheet(disk, "none")

\* no row of a frame has all cells null
NoNullRow(t) ==
  \A i \in 1..NRows(t) : \E j \in 1..NCols(t) : ~IsNull(t.rows[i][j])

\* no column of a frame has all cells null
NoNullColumn(t) ==
  \A j \in 1..NCols(t) : \E i \in 1..NRows(t) : ~IsNull(t.rows[i][j])

\* C3: every frame load_sheet_data returns, after the row drop, the column
\* drop and both conversions, has no row of nulls and no column of nulls.
C3_NoNullRowOrColumn ==
  df # None => NoNullRow(df[1]) /\ NoNullColumn(df[1])

\* C4: the numeric conversion is all or nothing per column: a column that is
\* of strings when the conversion starts is afterwards either numeric, each
\* cell being the number its string reads as (a missing cell staying
\* missing), or exactly as it was, dtype and every cell; a column that is
\* not of strings is as it was.
C4_NumericAllOrNothing ==
  df # None =>
    LET before == DatesConverted(raw[1])
        after  == df[1]
    IN  /\ after.columns = before.columns
        /\ NRows(after) = NRows(before)
        /\ \A j \in 1..NCols(before) :
             \/ /\ after.dtypes[j] = before.dtypes[j]
                /\ Column(after, j) = Column(before, j)
             \/ /\ before.dtypes[j] = "object"
                /\ after.dtypes[j] = "number"
                /\ \A i \in 1..NRows(before) :
                     /\ after.rows[i][j].k \in {"num", "null"}
                     /\ before.rows[i][j].k = "text" =>
                          after.rows[i][j] = TextToNumeric(before.rows[i][j].v)
                     /\ before.rows[i][j].k # "text" =>
                          after.rows[i][j] = before.rows[i][j]

\* a column with a string that is a number and a string that is not, left
\* as it was, beside a column of strings that became numeric
C4_Witness ==
  /\ df # None
  /\ \E j \in 1..NCols(df[1]) :
       /\ df[1].dtypes[j] = "object"
       /\ \E i \in 1..NRows(df[1]) : df[1].rows[i][j] = Text(2)
       /\ \E i \in 1..NRows(df[1]) : df[1].rows[i][j] = Text(3)
  /\ \E j \in 1..NCols(df[1]) :
       /\ df[1].dtypes[j] = "number"
       /\ \E i \in 1..NRows(raw[1]) : raw[1].rows[i][j] = Text(2)

AllSteps == <<"open", "delete", "create", "render", "save">>

\* C5: create_statistics_sheet returns True only when the workbook was
\* opened, the old sheet deleted, the new one created and rendered and the
\* workbook saved, all without error; when any of them fails it returns
\* False, and no exception reaches the caller.
C5_TrueOnlyIfAllSteps ==
  last.op = "create_statistics_sheet" =>
    /\ ~last.raised
    /\ last.ret => last.steps = AllSteps /\ last.fault = "none" /\ last.before.ok
    /\ (last.fault # "none" \/ ~last.before.ok) => ~last.ret

\* a call that failed after the workbook was opened
C5_Witness ==
  /\ last.op = "create_statistics_sheet"
  /\ ~last.ret
  /\ last.fault = "render"
  /\ last.steps = <<"open", "delete", "create">>

\* C6: the replacement is not atomic.  A create_statistics_sheet that fails
\* while the file is being written leaves a file that holds neither the old
\* "Statistics" sheet nor the new one; one that fails anywhere else leaves
\* the file as it was.  No failed call leaves the new sheet saved.
C6_FailedSaveLosesOldSheet ==
  (last.op = "create_statistics_sheet" /\ ~last.ret) =>
    IF last.fault = "save_write" /\ last.before.ok
    THEN disk # last.before /\ StatisticsAt(disk) = {}
    ELSE disk = last.before

\* a failed call before which the file held a "Statistics" sheet and after
\* which it holds none
C6_Witness ==
  /\ last.op = "create_statistics_sheet"
  /\ ~last.ret
  /\ StatisticsAt(last.before) # {}
  /\ StatisticsAt(disk) = {}

\* C7: a statistics row is written for a column of the frame exactly when the
\* column is numeric and selected_columns is empty or holds its name.
C7_RowIffNumericAndSelected ==
  Created =>
    \A j \in 1..NCols(df[1]) :
      InSeq(df[1].columns[j], StatsNames(NewWrites))
        <=> /\ df[1].dtypes[j] = "number"
            /\ last.sel = <<>> \/ InSeq(df[1].columns[j], last.sel)

\* an empty selection with a row for each of two numeric columns
C7_Witness ==
  /\ Created
  /\ last.sel = <<>>
  /\ Len(StatsNames(NewWrites)) = 2
  /\ \A j \in 1..NCols(df[1]) : df[1].dtypes[j] = "number"

\* the selected names that are no column of the frame
Unknown(data, sel) ==
  {sel[i] : i \in {k \in 1..Len(sel) : ~InSeq(sel[k], data.columns)}}

\* C8: when selected_columns holds a name that is no column of the frame and
\* nothing else fails, the call returns True, the name has its bullet and
\* no statistics row is written for it.
C8_UnknownNameListedNoRow ==
  (/\ last.op = "create_statistics_sheet"
   /\ last.fault = "none"
   /\ last.before.ok
   /\ Unknown(df[1], last.sel) # {}) =>
     /\ last.ret
     /\ \A name \in Unknown(df[1], last.sel) :
          /\ \E i \in 1..Len(NewWrites) :
               /\ NewWrites[i].sec = "bullet"
               /\ NewWrites[i].val = StrVal(BulletPrefix \o name)
          /\ ~InSeq(name, StatsNames(NewWrites))

\* a successful call that selected a name the frame does not have, with a
\* row written for a column the frame has
C8_Witness ==
  /\ Created
  /\ Unknown(df[1], last.sel) # {}
  /\ StatsNames(NewWrites) # <<>>

\* C9: the bullets written are one per element of selected_columns, in the
\* order given, repetitions included, from row 4 down in column A, whether or
\* not the names are columns of the frame.
C9_BulletsAreSelection ==
  Created =>
    LET bullets == Section(NewWrites, "bullet")
    IN  /\ Len(bullets) = Len(last.sel)
        /\ \A i \in 1..Len(bullets) :
             /\ bullets[i].val = StrVal(BulletPrefix \o last.sel[i])
             /\ bullets[i].col = "A"
             /\ bullets[i].row = 3 + i

\* a selection that repeats a name
C9_Witness ==
  /\ Created
  /\ Len(last.sel) = 2
  /\ last.sel[1] = last.sel[2]
  /\ Len(Section(NewWrites, "bullet")) = 2

\* the rows of a frame whose cell in column j is not null
Present(t, j) == {i \in 1..NRows(t) : ~IsNull(t.rows[i][j])}

RECURSIVE SumOver(_, _, _)
SumOver(t, j, I) ==
  IF I = {} THEN 0
  ELSE LET i == CHOOSE x \in I : TRUE
       IN  t.rows[i][j].v + SumOver(t, j, I \ {i})

\* C10: in each statistics row the count is the number of non-null cells of
\* the column, and when there is one, min, max and sum are the least, the
\* greatest and the total of the non-null cells and the mean is their
\* average to the nearest hundredth; null cells contribute nothing.
C10_StatsOverNonNull ==
  Created =>
    \A k \in 1..Len(NewWrites) :
      (NewWrites[k].sec = "stats" /\ NewWrites[k].col = "A") =>
        LET row == NewWrites[k].row
            j   == CHOOSE c \in 1..NCols(df[1]) : df[1].columns[c] = NewWrites[k].val.s
            I   == Present(df[1], j)
            n   == Cardinality(I)
            sum == SumOver(df[1], j, I)
        IN  /\ StatsCell(NewWrites, "B", row) = IntVal(n)
            /\ n > 0 =>
                 /\ StatsCell(NewWrites, "F", row) = IntVal(sum)
                 /\ \E i \in I : StatsCell(NewWrites, "D", row) = IntVal(df[1].rows[i][j].v)
                 /\ \A i \in I : StatsCell(NewWrites, "D", row).n <= df[1].rows[i][j].v
                 /\ \E i \in I : StatsCell(NewWrites, "E", row) = IntVal(df[1].rows[i][j].v)
                 /\ \A i \in I : StatsCell(NewWrites, "E", row).n >= df[1].rows[i][j].v
                 /\ StatsCell(NewWrites, "C", row).t = "c"
                 /\ 2 * (n * StatsCell(NewWrites, "C", row).n - 100 * sum) <= n
                 /\ 2 * (100 * sum - n * StatsCell(NewWrites, "C", row).n) <= n

\* the column Cost of the example, 1000 and a missing cell: count 1, mean
\* 1000.00, min 1000, max 1000, sum 1000
C10_Witness ==
  /\ Created
  /\ \E j \in 1..NCols(df[1]) :
       /\ df[1].columns[j] = "Cost"
       /\ Column(df[1], j) = <<Num(1000), NULL>>
  /\ \E k \in 1..Len(NewWrites) :
       /\ NewWrites[k].sec = "stats"
       /\ NewWrites[k].col = "A"
       /\ NewWrites[k].val = StrVal("Cost")
       /\ StatsCell(NewWrites, "B", NewWrites[k].row) = IntVal(1)
       /\ StatsCell(NewWrites, "C", NewWrites[k].row) = CentsVal(100000)
       /\ StatsCell(NewWrites, "D", NewWrites[k].row) = IntVal(1000)
       /\ StatsCell(NewWrites, "E", NewWrites[k].row) = IntVal(1000)
       /\ StatsCell(NewWrites, "F", NewWrites[k].row) = IntVal(1000)

\* the value written in column B of a counter line
CounterCell(writes, sec) ==
  (CHOOSE w \in {writes[i] : i \in 1..Len(writes)} : w.sec = sec /\ w.col = "B").val

\* C11: in the sheet a successful create_statistics_sheet wrote, the row of a
\* numeric column without a non-null cell holds the count 0 and the number 0
\* as mean, minimum, maximum and sum, and no cell of the sheet holds NaN.
C11_EmptyColumnAllZero ==
  Created =>
    /\ \A k \in 1..Len(NewWrites) : NewWrites[k].val.t # "nan"
    /\ \A k \in 1..Len(NewWrites) :
         (NewWrites[k].sec = "stats" /\ NewWrites[k].col = "A") =>
           LET row == NewWrites[k].row
               j   == CHOOSE c \in 1..NCols(df[1]) :
                        df[1].columns[c] = NewWrites[k].val.s
           IN  Present(df[1], j) = {} =>
                 \A col \in {"B", "C", "D", "E", "F"} :
                   StatsCell(NewWrites, col, row) = IntVal(0)

\* the caller's frame, whose numeric column Cost has no value, was written
\* with Cost included: its row is Cost, 0, 0, 0, 0, 0
C11_Witness ==
  /\ Created
  /\ df = Some(CallerFrame)
  /\ \E k \in 1..Len(NewWrites) :
       /\ NewWrites[k].sec = "stats"
       /\ NewWrites[k].col = "A"
       /\ NewWrites[k].val = StrVal("Cost")
       /\ \A col \in {"B", "C", "D", "E", "F"} :
            StatsCell(NewWrites, col, NewWrites[k].row) = IntVal(0)

\* C12: in the sheet a successful create_statistics_sheet wrote, "Total
\* Records:" is followed by the number of rows of the frame passed in and
\* "Total Columns:" by the number of its columns, whatever was selected and
\* however many columns are numeric.
C12_CountersAreFrameSize ==
  Created =>
    /\ CounterCell(NewWrites, "records") = IntVal(NRows(df[1]))
    /\ CounterCell(NewWrites, "columns") = IntVal(NCols(df[1]))

\* the example, two rows and three columns of which one is numeric, written
\* with one column selected: the counters are 2 and 3
C12_Witness ==
  /\ Created
  /\ Len(last.sel) = 1
  /\ NRows(df[1]) = 2
  /\ NCols(df[1]) = 3
  /\ Len(NumericCols(df[1])) = 1
  /\ CounterCell(NewWrites, "records") = IntVal(2)
  /\ CounterCell(NewWrites, "columns") = IntVal(3)

\* C13: has_statistics_sheet returns True exactly when the file can be read
\* and one of its sheets is titled "Statistics", letter for letter, which is
\* when get_sheet_names on the same file lists that name; it returns False
\* when the file cannot be opened or read.
C13_HasIffExactName ==
  last.op = "has_statistics_sheet" =>
    /\ last.ret <=> (disk.ok /\ last.fault = "none" /\ StatisticsAt(disk) # {})
    /\ last.ret <=> InSeq("Statistics", GetSheetNames(disk, last.fault))
    /\ (~disk.ok \/ last.fault # "none") => ~last.ret

\* a readable workbook with a sheet titled "statistics" and none titled
\* "Statistics": has_statistics_sheet returned False
C13_Witness ==
  /\ last.op = "has_statistics_sheet"
  /\ last.fault = "none"
  /\ disk.ok
  /\ \E i \in 1..Len(disk.sheets) : disk.sheets[i].title = "statistics"
  /\ ~last.ret

\* C14: get_sheet_names on a readable workbook returns one name per sheet,
\* the i-th name being the title of the i-th sheet of the workbook.
C14_NamesInWorkbookOrder ==
  (last.op = "get_sheet_names" /\ last.fault = "none" /\ disk.ok) =>
    /\ Len(last.names) = Len(disk.sheets)
    /\ \A i \in 1..Len(disk.sheets) : last.names[i] = disk.sheets[i].title

\* the workbook whose first sheet is Statistics and second is Data: the
\* names come back in that order, which is not the sorted one
C14_Witness ==
  /\ last.op = "get_sheet_names"
  /\ last.fault = "none"
  /\ Len(disk.sheets) = 2
  /\ disk.sheets[1].title = "Statistics"
  /\ disk.sheets[2].title = "Data"
  /\ last.names = <<"Statistics", "Data">>

\* C15: get_sheet_names lets no exception reach the caller, and returns the
\* empty list when the file cannot be opened or its content cannot be read.
C15_ErrorGivesEmptyList ==
  last.op = "get_sheet_names" =>
    /\ ~last.raised
    /\ (~disk.ok \/ last.fault # "none") => last.names = <<>>

\* a file that opens and whose content is not a workbook: the call returned
\* the empty list, although the file has sheets
C15_Witness ==
  /\ last.op = "get_sheet_names"
  /\ last.fault = "read"
  /\ disk.ok
  /\ disk.sheets # <<>>
  /\ last.names = <<>>
  /\ ~last.raised

\* C16: load_sheet_data lets no exception reach the caller, whether the
\* reading or the cleaning fails, and returns None when the reading fails.
C16_LoadNeverRaises ==
  last.op = "load_sheet_data" =>
    /\ ~last.raised
    /\ \/ ~disk.ok
       \/ last.fault # "none"
       \/ \A i \in 1..Len(disk.sheets) : disk.sheets[i].title # last.sheet
       => df = None /\ ~last.ret

\* a file with a table that opens and whose content cannot be read: the
\* call returned None
C16_Witness ==
  /\ last.op = "load_sheet_data"
  /\ last.fault = "read"
  /\ disk.ok
  /\ disk.sheets[1].title = last.sheet
  /\ disk.sheets[1].data.rows # <<>>
  /\ df = None
  /\ ~last.raised

\* the cells of a column converted one by one to dates
AsDatetimes(cells) == [i \in 1..Len(cells) |-> CellToDatetime(cells[i])]

\* C18: in the frame load_sheet_data has after the date loop, every column
\* left by the pruning whose label contains "date" or "time" is either
\* converted whole (each cell parses and holds its date) or, one cell not
\* parsing, exactly as the pruning left it.
C18_DateColumnsWholeOrUntouched ==
  (last.op = "load_sheet_data" /\ df # None) =>
    LET p == Pruned(raw[1])
        d == DatesConverted(raw[1])
    IN  \A j \in 1..NCols(p) :
          (IsTextName(p.columns[j]) /\ IsDateName(p.columns[j])) =>
            IF \A i \in 1..NRows(p) : AsDatetimes(Column(p, j))[i] # Fail
            THEN d.dtypes[j] = "datetime" /\ Column(d, j) = AsDatetimes(Column(p, j))
            ELSE d.dtypes[j] = p.dtypes[j] /\ Column(d, j) = Column(p, j)

\* what the two loops make of one column taken alone
ColumnCoerced(p, j) ==
  LET d == IF IsDateName(p.columns[j])
           THEN ToDatetimeIgnore(p.dtypes[j], Column(p, j))
           ELSE [dtype |-> p.dtypes[j], cells |-> Column(p, j)]
  IN  IF d.dtype = "object" THEN ToNumericIgnore(d.dtype, d.cells) ELSE d

\* C19: in the frame load_sheet_data returns, every column whose label is a
\* string is what the date conversion and the numeric conversion make of
\* that column alone, whatever the other columns and their labels are.
C19_FailureStaysInItsColumn ==
  (last.op = "load_sheet_data" /\ df # None) =>
    LET p == Pruned(raw[1])
    IN  \A j \in 1..NCols(p) :
          IsTextName(p.columns[j]) =>
            /\ df[1].dtypes[j] = ColumnCoerced(p, j).dtype
            /\ Column(df[1], j) = ColumnCoerced(p, j).cells

\* C20: when get_sheet_names, has_statistics_sheet or create_statistics_sheet
\* returns, the workbook it opened is not open any more.
C20_HandlesClosed ==
  last.op \in {"get_sheet_names", "has_statistics_sheet", "create_statistics_sheet"} =>
    last.handle # "open"

\* the place of a section in the order title, bullets (with their heading),
\* counters (with theirs), numeric statistics (heading, header line, rows),
\* notes
SectionRank(sec) ==
  CASE sec = "title"                            -> 1
    [] sec \in {"selected", "bullet"}           -> 2
    [] sec \in {"basic", "records", "columns"}  -> 3
    [] sec \in {"numeric", "head", "stats"}     -> 4
    [] sec \in {"note1", "note2"}               -> 5

\* C21: in the sheet a successful create_statistics_sheet wrote, every cell
\* of an earlier section (title, bullets, counters, numeric statistics,
\* notes, in this order) is in a row above every cell of a later section,
\* and no cell was written twice.
C21_SectionsTopToBottom ==
  Created =>
    /\ \A i, j \in 1..Len(NewWrites) :
         SectionRank(NewWrites[i].sec) < SectionRank(NewWrites[j].sec) =>
           NewWrites[i].row < NewWrites[j].row
    /\ \A i, j \in 1..Len(NewWrites) :
         (NewWrites[i].col = NewWrites[j].col /\ NewWrites[i].row = NewWrites[j].row)
           => i = j

\* a sheet written with two bullets and two statistics rows: all five
\* sections are there
C21_Witness ==
  /\ Created
  /\ Len(Section(NewWrites, "bullet")) = 2
  /\ Len(StatsNames(NewWrites)) = 2
  /\ Len(Section(NewWrites, "records")) = 2
  /\ Len(Section(NewWrites, "note2")) = 1

\* C27: after a create_statistics_sheet that returned True, get_sheet_names
\* on the file returns a list whose last name is "Statistics".
C27_StatisticsIsLastName ==
  Created =>
    LET names == GetSheetNames(disk, "none")
    IN  names # <<>> /\ names[Len(names)] = "Statistics"

\* C29: in the sheet a successful create_statistics_sheet wrote, the names
\* of the statistics rows, top to bottom, are columns of the frame at
\* strictly increasing positions: the order is that of the frame and no
\* column has two rows, whatever the order and the repetitions of
\* selected_columns.
C29_RowsInFrameOrder ==
  Created =>
    LET names == StatsNames(NewWrites)
        pos(name) == CHOOSE j \in 1..NCols(df[1]) : df[1].columns[j] = name
        rows == Filter(NewWrites,
                       [i \in 1..Len(NewWrites) |->
                          NewWrites[i].sec = "stats" /\ NewWrites[i].col = "A"], 1)
    IN  /\ \A i \in 1..Len(names) : InSeq(names[i], df[1].columns)
        /\ \A i, j \in 1..Len(names) :
             i < j => pos(names[i]) < pos(names[j]) /\ rows[i].row < rows[j].row

\* the frame with the numeric columns Task, Cost written with the selection
\* Cost, Task: the rows are Task, Cost. (The selection Cost, Cost gives the
\* single row Cost in the same specification.)
C29_Witness ==
  /\ Created
  /\ last.sel = <<"Cost", "Task">>
  /\ StatsNames(NewWrites) = <<"Task", "Cost">>

\* the operations that read a workbook
ReadOps ==
  {"get_sheet_names", "has_statistics_sheet", "load_sheet_data", "get_column_info"}

\* C24: when get_sheet_names, has_statistics_sheet, load_sheet_data or
\* get_column_info has returned, with a result or after an error, the file
\* is what it was before the call: same sheets, same order, same contents.
C24_ReadsLeaveFileUnchanged ==
  last.op \in ReadOps => disk = last.before

\* get_column_info returned the columns of the data sheet of a workbook
\* that also holds a Statistics sheet written before, and the file is as it
\* was
C24_Witness ==
  /\ last.op = "get_column_info"
  /\ last.names # <<>>
  /\ StatisticsAt(disk) # {}
  /\ \E i \in StatisticsAt(disk) : disk.sheets[i].writes # OldStatistics
  /\ disk = last.before

\* the sheets of a file not titled "Statistics", in their order
OtherSheets(file) ==
  Filter(file.sheets,
         [i \in 1..Len(file.sheets) |-> file.sheets[i].title # "Statistics"], 1)

\* C25: after a create_statistics_sheet that returned True, the sheets not
\* titled "Statistics" are the ones the file had before the call: the same
\* titles in the same order with the same contents.
C25_OtherSheetsUnchanged ==
  Created => OtherSheets(disk) = OtherSheets(last.before)

\* both calls have returned
BothReturned == \A i \in Callers : calls.p[i].pc \in {"done", "failed"}

\* what C26 promises of the file: one sheet titled "Statistics", holding
\* what the call that saved last rendered, and the other sheets as they were
LastSaverWins ==
  /\ disk.ok
  /\ Cardinality(StatisticsAt(disk)) = 1
  /\ \A k \in StatisticsAt(disk) : disk.sheets[k].writes = Render(df[1], last.sel)
  /\ OtherSheets(disk) = OtherSheets(calls.origin)

ExcelFileNames(items) ==
  {items[i].name : i \in {j \in 1..Len(items) :
     /\ ~items[j].isdir
     /\ \E e \in {"*.xlsx", "*.xls", "*.xlsm"} : FnMatch(items[j].name, e)
     /\ ~StartsWith(items[j].name, "~")}}

\* a list without repetition, in increasing order
StrictlySorted(names) ==
  \A i, j \in 1..Len(names) : i < j => NameLess(names[i], names[j])

\* C22: get_excel_files returns exactly the names of the files directly in
\* the project folder whose extension is .xlsx, .xls or .xlsm and whose name
\* does not begin with "~", each once, sorted; get_project_folders returns
\* exactly the sub-directories of the root, sorted
C22_ListsExactlyTheEntries ==
  /\ (last.op = "get_excel_files" /\ ProjectExists(fs, last.project)) =>
       /\ Range(last.names) = ExcelFileNames(ProjectItems(fs, last.project))
       /\ StrictlySorted(last.names)
  /\ (last.op = "get_project_folders" /\ fs.exists /\ last.fault = "none") =>
       /\ Range(last.names) =
            {fs.items[i].name : i \in {j \in 1..Len(fs.items) : fs.items[j].isdir}}
       /\ StrictlySorted(last.names)

C28_SessionConsistent ==
  (last.op = "main" /\ last.fault = "none") =>
    /\ session.selected_file # Unset =>
         InSeq(session.selected_file,
               GetExcelFiles(fs, session.selected_project).names)
    /\ session.selected_sheet # Unset =>
         InSeq(session.selected_sheet,
               SheetNamesAt(fs, session.selected_project, session.selected_file,
                            "none").names)

\* C30: create_presentation with n graphs builds n + 2 slides: the title
\* slide, a slide for each graph in the given order, the summary slide; it
\* returns the path of the saved file; a failure while a slide is filled
\* changes neither; only a failure of the build or of the save returns None
C30_DeckOfEveryGraph ==
  (ppt.op = "create_presentation" /\ ppt.fault # "build") =>
    /\ Len(ppt.deck) = Len(ppt.graphs) + 2
    /\ ppt.deck[1].layout = 0
    /\ \A i \in 1..Len(ppt.graphs) :
         /\ ppt.deck[i + 1].layout = 5
         /\ ppt.deck[i + 1].title = GraphTitle(ppt.graphs[i], i)
    /\ ppt.deck[Len(ppt.deck)].layout = 1
    /\ (ppt.fault = "none" /\ ppt.temp_dir) =>
         ppt.ret = Some(ReportPath) /\ ppt.saved = Some(ppt.deck)
    /\ ppt.ret = None <=> (ppt.fault = "save" \/ ~ppt.temp_dir)

\* a deck was saved although the figure of one of its graphs did not render
C30_Witness ==
  /\ ppt.op = "create_presentation"
  /\ Len(ppt.graphs) = MaxGraphs
  /\ ppt.graphs[1].figure = "fails"
  /\ ppt.graphs[MaxGraphs].figure = "ok"
  /\ ppt.ret = Some(ReportPath)
  /\ Len(ppt.saved[1]) = MaxGraphs + 2
  /\ ppt.saved[1][2].picture = FALSE
  /\ ppt.saved[1][MaxGraphs + 1].picture = TRUE

====
